---- MODULE Spec2Model ----
(***************************************************************************)
(* A model of the Mermaid diagram pipeline of md2docx:                     *)
(*   fix_mermaid_syntax.py       validator and fixer (text functions)      *)
(*   mermaid_python_renderer.py  per-kind parsers, layout, drawing         *)
(*   mermaid_renderer.py         MermaidRenderer and                       *)
(*                               convert_mermaid_to_images                 *)
(* Text is a sequence of one-character strings; "\n" is the line break.    *)
(***************************************************************************)
EXTENDS Integers, Sequences, FiniteSets, TLC

(***************************************************************************)
(* Characters and Python's str primitives                                  *)
(***************************************************************************)
NL == "\n"

UpperAlpha ==
  <<"A","B","C","D","E","F","G","H","I","J","K","L","M",
    "N","O","P","Q","R","S","T","U","V","W","X","Y","Z">>

LowerAlpha ==
  <<"a","b","c","d","e","f","g","h","i","j","k","l","m",
    "n","o","p","q","r","s","t","u","v","w","x","y","z">>

Digits == {"0","1","2","3","4","5","6","7","8","9"}

Range(f) == {f[i] : i \in DOMAIN f}

\* [A-Za-z0-9]
AlNum == Range(UpperAlpha) \cup Range(LowerAlpha) \cup Digits

\* [A-Za-z0-9_]
IdChars == AlNum \cup {"_"}

\* str.strip() / regex \s
IsSpace(c) == c \in {" ", "\n", "\t", "\r"}

\* str.lower() on one character
LowerChar(c) ==
  IF c \in Range(UpperAlpha)
  THEN LowerAlpha[CHOOSE i \in DOMAIN UpperAlpha : UpperAlpha[i] = c]
  ELSE c

\* str.lower()
Lower(s) == [i \in DOMAIN s |-> LowerChar(s[i])]

Min(S) == CHOOSE x \in S : \A y \in S : x <= y

Max(S) == CHOOSE x \in S : \A y \in S : x >= y

\* s[i:] (1-based, inclusive start)
From(s, i) == SubSeq(s, i, Len(s))

\* str.strip(chars): drop leading and trailing characters of the set
StripSet(s, cs) ==
  LET keep == {i \in DOMAIN s : s[i] \notin cs}
  IN IF keep = {} THEN <<>> ELSE SubSeq(s, Min(keep), Max(keep))

\* str.strip()
Strip(s) == StripSet(s, {" ", "\n", "\t", "\r"})

\* str.startswith(p)
StartsWith(s, p) == Len(s) >= Len(p) /\ SubSeq(s, 1, Len(p)) = p

\* the positions where p occurs in s
Occurrences(s, p) ==
  {i \in 1..(Len(s) - Len(p) + 1) : SubSeq(s, i, i + Len(p) - 1) = p}

\* p in s
Contains(s, p) == Occurrences(s, p) # {}

\* str.split(sep), sep non-empty
RECURSIVE SplitOn(_, _)
SplitOn(s, sep) ==
  IF ~Contains(s, sep) THEN <<s>>
  ELSE LET i == Min(Occurrences(s, sep))
       IN <<SubSeq(s, 1, i - 1)>> \o SplitOn(From(s, i + Len(sep)), sep)

\* sep.join(parts)
RECURSIVE Join(_, _)
Join(parts, sep) ==
  IF Len(parts) = 0 THEN <<>>
  ELSE IF Len(parts) = 1 THEN parts[1]
  ELSE parts[1] \o sep \o Join(Tail(parts), sep)

\* str.split('\n')
Lines(s) == SplitOn(s, <<NL>>)

\* float(text): optional sign, digits with an optional point, optional
\* exponent, or inf / infinity / nan; surrounding whitespace is ignored
IsDigits(s) == Len(s) > 0 /\ \A i \in DOMAIN s : s[i] \in Digits

IsDecimalParts(s, parts) ==
  \/ IsDigits(s)
  \/ /\ Len(parts) = 2
     /\ \A k \in 1..2 : parts[k] = <<>> \/ IsDigits(parts[k])
     /\ parts[1] # <<>> \/ parts[2] # <<>>

IsDecimal(s) == IsDecimalParts(s, SplitOn(s, <<".">>))

Unsigned(s) == IF Len(s) > 0 /\ s[1] \in {"+", "-"} THEN Tail(s) ELSE s

IsExponentForm(e) == Len(e) = 2 /\ IsDecimal(e[1]) /\ IsDigits(Unsigned(e[2]))

IsFloatBody(s) ==
  \/ s \in {<<"i","n","f">>, <<"n","a","n">>, <<"i","n","f","i","n","i","t","y">>}
  \/ IsDecimal(s)
  \/ IsExponentForm(SplitOn(s, <<"e">>))

IsFloat(text) == IsFloatBody(Unsigned(Lower(Strip(text))))

(***************************************************************************)
(* fix_mermaid_syntax.py                                                   *)
(***************************************************************************)
W_pie == <<"p","i","e">>

W_graph == <<"g","r","a","p","h">>

W_flowchart == <<"f","l","o","w","c","h","a","r","t">>

W_gantt == <<"g","a","n","t","t">>

W_title == <<"t","i","t","l","e">>

W_section == <<"s","e","c","t","i","o","n">>

Arrow == <<"-","-",">">>

LongArrow == <<"-","-","-",">">>

Dashes == <<"-","-">>

Colon == <<":">>

\* valid_types, as written in the source (compared after t.lower())
valid_types ==
  << W_graph, W_flowchart,
     <<"s","e","q","u","e","n","c","e","d","i","a","g","r","a","m">>,
     W_pie, W_gantt,
     <<"c","l","a","s","s","D","i","a","g","r","a","m">>,
     <<"s","t","a","t","e","D","i","a","g","r","a","m">>,
     <<"m","i","n","d","m","a","p">>,
     <<"q","u","a","d","r","a","n","t","C","h","a","r","t">> >>

\* code.split('\n')[0].strip().lower()
FirstLineLower(code) == Lower(Strip(Lines(code)[1]))

Answer(valid, reason) == [valid |-> valid, reason |-> reason]

\* lines 93-100 on one data line, split on ':': "ok" or the error
PieLineCheck(parts) ==
  IF Len(parts) # 2 THEN "pie_bad_line"
  ELSE IF ~IsFloat(parts[2]) THEN "pie_bad_value"
  ELSE "ok"

\* lines 93-100: the loop returns at the first data line that fails
PieLinesAnswer(checks) ==
  IF \E k \in DOMAIN checks : checks[k] # "ok"
  THEN Answer(FALSE, checks[Min({k \in DOMAIN checks : checks[k] # "ok"})])
  ELSE Answer(TRUE, "ok")

\* lines 84-100, data_lines = the lines after the first that hold a ':'
ValidatePie(code, data_lines) ==
  IF ~Contains(code, Colon) THEN Answer(FALSE, "pie_missing_data")
  ELSE IF Len(data_lines) = 0 THEN Answer(FALSE, "pie_no_data_lines")
  ELSE PieLinesAnswer([k \in DOMAIN data_lines |->
                           PieLineCheck(SplitOn(data_lines[k], Colon))])

HasColon(l) == Contains(l, Colon)

\* lines 76-107
ValidateTyped(code, first_line) ==
  IF ~\E k \in DOMAIN valid_types : StartsWith(first_line, Lower(valid_types[k]))
  THEN Answer(FALSE, "unknown_type")
  ELSE IF StartsWith(first_line, W_pie)
  THEN ValidatePie(code, SelectSeq(Tail(Lines(code)), HasColon))
  ELSE IF /\ StartsWith(first_line, W_graph) \/ StartsWith(first_line, W_flowchart)
          /\ ~Contains(code, Arrow) /\ ~Contains(code, Dashes)
  THEN Answer(FALSE, "graph_no_edges")
  ELSE Answer(TRUE, "ok")

\* lines 69-73
ValidateStripped(code) ==
  IF code = <<>> THEN Answer(FALSE, "empty")
  ELSE ValidateTyped(code, FirstLineLower(code))

\* validate_mermaid_syntax: [valid, reason]
validate_mermaid_syntax(mermaid_code) == ValidateStripped(Strip(mermaid_code))

\* variant of FixPieParts: the label is wrapped in quotes without stripping
\* the quotes it has
FixPieKeepQuotes(parts) ==
  IF Len(parts) = 2
  THEN << <<" "," "," "," ","\"">> \o Strip(parts[1])
          \o <<"\""," ",":"," ">> \o Strip(parts[2]) >>
  ELSE <<>>

\* lines 32-36: a data line split on ':' is re-emitted or dropped
FixPieParts(parts) ==
  IF Len(parts) = 2
  THEN << <<" "," "," "," ","\"">> \o StripSet(Strip(parts[1]), {"\""})
          \o <<"\""," ",":"," ">> \o Strip(parts[2]) >>
  ELSE <<>>

\* lines 27-38 on the stripped line i: the lines the pie branch emits for it
FixPieStripped(i, line) ==
  IF i = 1 THEN <<line>>
  ELSE IF line # <<>> /\ Contains(line, Colon) THEN FixPieParts(SplitOn(line, Colon))
  ELSE IF line # <<>> THEN <<line>>
  ELSE <<>>

FixPieLine(i, raw) == FixPieStripped(i, Strip(raw))

RECURSIVE FixPieLines(_, _)
FixPieLines(lines, i) ==
  IF i > Len(lines) THEN <<>>
  ELSE FixPieLine(i, lines[i]) \o FixPieLines(lines, i + 1)

\* fix 1, lines 22-39
FixPie(code) ==
  IF StartsWith(code, W_pie) THEN Join(FixPieLines(Lines(code), 1), <<NL>>) ELSE code

\* the index after the run of whitespace that starts at i
RECURSIVE SkipSpace(_, _)
SkipSpace(s, i) ==
  IF i <= Len(s) /\ IsSpace(s[i]) THEN SkipSpace(s, i + 1) ELSE i

\* group 2 of the arrow pattern at b, after the operator at a
ArrowTarget(s, op, a, b) ==
  IF /\ a + Len(op) - 1 <= Len(s)
     /\ SubSeq(s, a, a + Len(op) - 1) = op
     /\ b <= Len(s)
     /\ s[b] \in AlNum \cup {"["}
  THEN b ELSE 0

ArrowAfter(s, op, a) == ArrowTarget(s, op, a, SkipSpace(s, a + Len(op)))

\* ([A-Za-z0-9\]])\s*<op>\s*([A-Za-z0-9\[]) matched at i: the index of the
\* character group 2 matches, 0 when the pattern does not match at i
ArrowMatchEnd(s, op, i) ==
  IF s[i] \in AlNum \cup {"]"} THEN ArrowAfter(s, op, SkipSpace(s, i + 1)) ELSE 0

\* re.sub(pattern, r'\1 <op> \2', code): leftmost, non-overlapping matches
RECURSIVE SubArrowFrom(_, _, _)
SubArrowStep(s, op, i, m) ==
  IF m = 0 THEN <<s[i]>> \o SubArrowFrom(s, op, i + 1)
  ELSE <<s[i], " ">> \o op \o <<" ", s[m]>> \o SubArrowFrom(s, op, m + 1)

SubArrowFrom(s, op, i) ==
  IF i > Len(s) THEN <<>> ELSE SubArrowStep(s, op, i, ArrowMatchEnd(s, op, i))

SubArrow(s, op) == SubArrowFrom(s, op, 1)

\* fix 2, lines 42-45
FixGraph(code) ==
  IF StartsWith(code, W_graph) THEN SubArrow(SubArrow(code, Arrow), Dashes) ELSE code

\* fix 3, lines 48-57: keep a blank line only when the previous line was not blank
RECURSIVE CollapseBlank(_, _)
CollapseBlank(lines, prev_empty) ==
  IF Len(lines) = 0 THEN <<>>
  ELSE IF Strip(lines[1]) # <<>>
  THEN <<lines[1]>> \o CollapseBlank(Tail(lines), FALSE)
  ELSE IF ~prev_empty
  THEN <<lines[1]>> \o CollapseBlank(Tail(lines), TRUE)
  ELSE CollapseBlank(Tail(lines), prev_empty)

FixBlankLines(code) == Join(CollapseBlank(Lines(code), FALSE), <<NL>>)

\* fix_mermaid_syntax
fix_mermaid_syntax(mermaid_code) == FixBlankLines(FixGraph(FixPie(Strip(mermaid_code))))

(***************************************************************************)
(* mermaid_python_renderer.py: kind dispatch and the per-kind parsers      *)
(***************************************************************************)
\* variant of KindOfHeader: the final else falls into the last routine
KindLastRoutine(first_line) ==
  IF StartsWith(first_line, W_pie) THEN "pie"
  ELSE IF StartsWith(first_line, W_graph) \/ StartsWith(first_line, W_flowchart)
  THEN "graph"
  ELSE "gantt"

\* PurePythonMermaidRenderer.render, lines 37-45: the branch for a first line
KindOfHeader(first_line) ==
  IF StartsWith(first_line, W_pie) THEN "pie"
  ELSE IF StartsWith(first_line, W_graph) \/ StartsWith(first_line, W_flowchart)
  THEN "graph"
  ELSE IF StartsWith(first_line, W_gantt) THEN "gantt"
  ELSE "unsupported"

\* line 35 and the branch taken
DiagramKind(mermaid_code) == KindOfHeader(Lower(Lines(Strip(mermaid_code))[1]))

\* _render_pie, lines 66-75: the entries of one data line (none or one)
PieEntryParts(line, parts) ==
  IF Contains(line, Colon) /\ Len(parts) = 2 /\ IsFloat(Strip(parts[2]))
  THEN << [label |-> StripSet(Strip(parts[1]), {"\"", "'"}),
           value |-> Strip(parts[2])] >>
  ELSE <<>>

PieEntryOf(line) == PieEntryParts(line, SplitOn(line, Colon))

PieLineEntry(raw) == PieEntryOf(Strip(raw))

RECURSIVE PieEntriesOf(_)
PieEntriesOf(lines) ==
  IF Len(lines) = 0 THEN <<>>
  ELSE PieLineEntry(lines[1]) \o PieEntriesOf(Tail(lines))

\* _render_pie, lines 54-75: the (label, value) entries in source order
PieEntries(mermaid_code) == PieEntriesOf(Tail(Lines(Strip(mermaid_code))))

\* the length of the run of id characters that starts text
RECURSIVE IdRun(_, _)
IdRun(text, i) ==
  IF i <= Len(text) /\ text[i] \in IdChars THEN IdRun(text, i + 1) ELSE i - 1

\* _parse_node: [id, label], id = <<>> for (None, None)
NoNode == [id |-> <<>>, label |-> <<>>]

\* the first ] or } after the opening bracket, 0 when there is none
FirstCloser(text, open) ==
  IF \E j \in (open + 1)..Len(text) : text[j] \in {"]", "}"}
  THEN Min({j \in (open + 1)..Len(text) : text[j] \in {"]", "}"}})
  ELSE 0

\* ([A-Za-z0-9_]+)\s*[\[\{]([^\]\}]+)[\]\}] with the id of length n, the
\* bracket expected at open and the first closer at close; else the bare id
NodeOf(text, n, open, close) ==
  IF open <= Len(text) /\ text[open] \in {"[", "{"} /\ close > open + 1
  THEN [id |-> SubSeq(text, 1, n), label |-> SubSeq(text, open + 1, close - 1)]
  ELSE [id |-> SubSeq(text, 1, n), label |-> SubSeq(text, 1, n)]

NodeAt(text, n, open) == NodeOf(text, n, open, FirstCloser(text, open))

NodeWithId(text, n) == IF n = 0 THEN NoNode ELSE NodeAt(text, n, SkipSpace(text, n + 1))

NodeOfText(text) == NodeWithId(text, IdRun(text, 1))

parse_node(raw) == NodeOfText(Strip(raw))

\* re.search(r'\|([^|]+)\|', text): group 1, <<>> when there is no match
EdgeLabelOf(text) ==
  LET bars == {i \in DOMAIN text : text[i] = "|"}
      starts == {i \in bars : i + 1 <= Len(text) /\ text[i + 1] # "|"
                              /\ \E j \in bars : j > i + 1}
  IN IF starts = {} THEN <<>>
     ELSE SubSeq(text, Min(starts) + 1, Min({k \in bars : k > Min(starts) + 1}) - 1)

\* nodes[id] = label on an insertion-ordered dict
PutNode(ns, node) ==
  IF \E k \in DOMAIN ns : ns[k].id = node.id
  THEN [k \in DOMAIN ns |-> IF ns[k].id = node.id THEN node ELSE ns[k]]
  ELSE Append(ns, node)

\* if node_id: nodes[node_id] = label
AddNode(ns, node) == IF node.id # <<>> THEN PutNode(ns, node) ELSE ns

\* lines 283-293: the operator the line is split on
EdgeOp(line) ==
  IF Contains(line, Arrow) THEN Arrow
  ELSE IF Contains(line, LongArrow) THEN LongArrow
  ELSE Dashes

\* lines 307-312
EdgeLabel(from_part) ==
  IF Contains(from_part, <<"|">>) THEN EdgeLabelOf(from_part) ELSE <<>>

\* variant of EdgeBetween: the edge is appended whatever the two ids are
EdgeUnguarded(from_part, from, to, ns, es) ==
  [nodes |-> AddNode(AddNode(ns, from), to),
   edges |-> Append(es, [from |-> from.id, to |-> to.id,
                         label |-> EdgeLabel(from_part)])]

\* lines 300-320 with both sides parsed
EdgeBetween(from_part, from, to, ns, es) ==
  [nodes |-> AddNode(AddNode(ns, from), to),
   edges |-> IF from.id # <<>> /\ to.id # <<>>
             THEN Append(es, [from |-> from.id, to |-> to.id,
                                 label |-> EdgeLabel(from_part)])
             ELSE es]

\* lines 295-320
EdgeOfParts(parts, ns, es) ==
  IF Len(parts) < 2 THEN [nodes |-> ns, edges |-> es]
  ELSE EdgeBetween(Strip(parts[1]), parse_node(parts[1]), parse_node(parts[2]),
                   ns, es)

\* _parse_edge: the model after one line, [nodes, edges]
parse_edge(line, ns, es) ==
  IF ~Contains(line, Dashes) THEN [nodes |-> ns, edges |-> es]
  ELSE EdgeOfParts(SplitOn(line, EdgeOp(line)), ns, es)

\* _render_graph, lines 139-146: one iteration of the loop over lines[1:]
GraphLine(line, model) ==
  IF line # <<>> /\ (Contains(line, Arrow) \/ Contains(line, Dashes))
  THEN parse_edge(line, model.nodes, model.edges)
  ELSE model

GraphLineStep(raw, model) == GraphLine(Strip(raw), model)

RECURSIVE GraphLinesFold(_, _)
GraphLinesFold(lines, model) ==
  IF Len(lines) = 0 THEN model
  ELSE GraphLinesFold(Tail(lines), GraphLineStep(lines[1], model))

EmptyGraph == [nodes |-> <<>>, edges |-> <<>>]

\* _render_graph, lines 126-146: the graph model of a source
ParseGraph(mermaid_code) ==
  GraphLinesFold(Tail(Lines(Strip(mermaid_code))), EmptyGraph)

\* _render_graph, lines 129-133
VerticalHeader(first_line) ==
  Contains(first_line, <<"t","d">>) \/ Contains(first_line, <<"t","b">>)

IsVertical(mermaid_code) == VerticalHeader(Lower(Lines(Strip(mermaid_code))[1]))

\* _render_gantt, lines 424-440: one line; g = [section, tasks]
GanttLine(line, g) ==
  IF line = <<>> \/ StartsWith(line, W_title) THEN g
  ELSE IF StartsWith(line, W_section)
  THEN [g EXCEPT !.section = Strip(From(line, Len(W_section) + 1))]
  ELSE IF Contains(line, Colon)
  THEN [g EXCEPT !.tasks = Append(@, [name |-> Strip(SplitOn(line, Colon)[1]),
                                      section |-> g.section])]
  ELSE g

RECURSIVE GanttFold(_, _)
GanttFold(lines, g) ==
  IF Len(lines) = 0 THEN g
  ELSE GanttFold(Tail(lines), GanttLine(Strip(lines[1]), g))

GanttTasks(mermaid_code) ==
  GanttFold(Tail(Lines(Strip(mermaid_code))), [section |-> <<>>, tasks |-> <<>>]).tasks

(***************************************************************************)
(* Bounds of the model and the block sources documents are drawn from      *)
(***************************************************************************)
\* blocks per document
MaxBlocks == 2

\* convert_mermaid_to_images calls per process
MaxRuns == 2

\* the number of values the model's content hash takes
HashBuckets == 16

\* the block sources of the documents, by name
Src ==
  [ PieOk |->
      <<"p","i","e"," ","t","i","t","l","e"," ","T","\n","\"","A","\"",":","1","\n",
        "\"","B","\"",":","1">>,
    PieNoColon |->
      <<"p","i","e"," ","t","i","t","l","e"," ","T","\n","\"","A","\""," ","5">>,
    PieBadLine |->
      <<"p","i","e","\n","\"","A","\"",":","1","\n","\"","B","\"",":","2",":","3">>,
    Graph |->
      <<"g","r","a","p","h"," ","T","D","\n","A","-","-",">","B","\n",
        "B","-","-",">","C">>,
    FlowchartNoEdge |-> <<"f","l","o","w","c","h","a","r","t"," ","L","R","\n","A">>,
    Sequence |->
      <<"s","e","q","u","e","n","c","e","D","i","a","g","r","a","m","\n",
        "A","-",">",">","B",":"," ","h","i">>,
    Class |-> <<"c","l","a","s","s","D","i","a","g","r","a","m","\n","A">>,
    State |-> <<"s","t","a","t","e","D","i","a","g","r","a","m","\n","s">>,
    Mindmap |-> <<"m","i","n","d","m","a","p","\n","r">>,
    Quadrant |-> <<"q","u","a","d","r","a","n","t","C","h","a","r","t","\n","q">>,
    Unknown |-> <<"f","o","o">>,
    Gantt |->
      <<"g","a","n","t","t","\n","t","i","t","l","e"," ","G","\n",
        "T","1"," ",":","a","1">> ]

Sources == DOMAIN Src

\* the headers the validator knows and the pure-Python renderer does not draw
UnsupportedSources == {"Sequence", "Class", "State", "Mindmap", "Quadrant"}

\* the sources the blocks of a document are drawn from; the sequence diagram
\* stands for the unsupported headers, which render treats alike
BlockSources == (Sources \ UnsupportedSources) \cup {"Sequence"}

\* a document: its ```mermaid blocks (match.group(1).strip()), in source order
Docs == UNION {[1..n -> BlockSources] : n \in 0..MaxBlocks}

(***************************************************************************)
(* mermaid_renderer.py: MermaidRenderer                                    *)
(***************************************************************************)
\* the optional packages whose import _detect_method tries; "plotlibs" stands
\* for matplotlib and networkx both importing
Packages == {"plotlibs", "playwright", "pyppeteer"}

None == [n |-> 0, h |-> 0]

\* the module-level flag set by the import of fix_mermaid_syntax
HAS_SYNTAX_FIXER == TRUE

\* _detect_method
DetectMethod(inst) ==
  IF "plotlibs" \in inst THEN "pure_python"
  ELSE IF "playwright" \in inst THEN "playwright"
  ELSE IF "pyppeteer" \in inst THEN "pyppeteer"
  ELSE "online_api"

CharCode(c) ==
  IF c \in Range(UpperAlpha) THEN CHOOSE i \in DOMAIN UpperAlpha : UpperAlpha[i] = c
  ELSE IF c \in Range(LowerAlpha)
  THEN 26 + (CHOOSE i \in DOMAIN LowerAlpha : LowerAlpha[i] = c)
  ELSE IF c \in Digits THEN 53
  ELSE 54

RECURSIVE WeightedSum(_, _)
WeightedSum(s, i) ==
  IF i > Len(s) THEN 0 ELSE i * CharCode(s[i]) + WeightedSum(s, i + 1)

\* hashlib.md5(code).hexdigest()[:8]: a function of the content alone with a
\* bounded range
Hash8(code) == WeightedSum(code, 1) % HashBuckets

HashOf == [s \in Sources |-> Hash8(Src[s])]

\* os.path.join(output_dir, f"mermaid_{counter}_{hash}.png") for source s
BlockPath(ordinal, s) == [n |-> ordinal, h |-> HashOf[s]]

\* the paths a document's blocks are rendered to
PathsOf(d) == {BlockPath(i, d[i]) : i \in DOMAIN d}

\* variant of CacheHit: the existence test is missing
CacheMiss(path, fs) == FALSE

\* os.path.exists(output_path), lines 74-75
CacheHit(path, fs) == path \in fs

\* a routine's outcome:
\*   ret     what it returns, or "raise"
\*   drew    it reached its drawing code (canvas drawing, browser screenshot)
\*   wrote   it wrote the output file
\*   raised  an exception was raised in it or below it
\*   py      what PurePythonMermaidRenderer.render returned ("n/a": not called)
Outcome(ret, drew, wrote) ==
  [ret |-> ret, drew |-> drew, wrote |-> wrote, raised |-> ret = "raise", py |-> "n/a"]

\* try: ... except Exception: return <value>
Catch(r, value) == IF r.ret = "raise" THEN [r EXCEPT !.ret = value] ELSE r

\* the drawing part of a per-kind routine (subplots ... savefig): it returns
\* True after writing the file, or raises
DrawBody(ev) == Outcome(IF ev = "ok" THEN "True" ELSE "raise", TRUE, ev = "ok")

\* _render_pie
render_pie(code, ev) ==
  Catch(IF PieEntries(code) = <<>> THEN Outcome("False", FALSE, FALSE)
        ELSE DrawBody(ev), "False")

\* _render_graph
render_graph(code, ev) ==
  Catch(IF ParseGraph(code).nodes = <<>> THEN Outcome("False", FALSE, FALSE)
        ELSE DrawBody(ev), "False")

\* _render_gantt
render_gantt(code, ev) ==
  Catch(IF GanttTasks(code) = <<>> THEN Outcome("False", FALSE, FALSE)
        ELSE DrawBody(ev), "False")

\* PurePythonMermaidRenderer.render, lines 37-49, for the kind of the source
RenderKind(kind, code, ev) ==
  Catch(IF kind = "pie" THEN render_pie(code, ev)
        ELSE IF kind = "graph" THEN render_graph(code, ev)
        ELSE IF kind = "gantt" THEN render_gantt(code, ev)
        ELSE Outcome("False", FALSE, FALSE), "False")

\* PurePythonMermaidRenderer.render
py_render(code, ev) == RenderKind(DiagramKind(code), code, ev)

\* _render_pure_python, lines 113-121, given what the renderer returned
PathIfTrue(r) ==
  Catch([r EXCEPT !.ret = IF r.ret = "True" THEN "path"
                         ELSE IF r.ret = "False" THEN "none" ELSE "raise",
                  !.py = r.ret], "none")

\* _render_pure_python: output_path when the renderer returns True, else None
render_pure_python(code, ev) == PathIfTrue(py_render(code, ev))

\* _render_playwright: the wait may time out (raises), the svg may be missing
render_playwright(code, ev) ==
  IF ev = "ok" THEN Outcome("path", TRUE, TRUE)
  ELSE IF ev = "no_element" THEN Outcome("none", FALSE, FALSE)
  ELSE Outcome("raise", FALSE, FALSE)

\* _render_pyppeteer
render_pyppeteer(code, ev) ==
  IF ev = "ok" THEN Outcome("path", TRUE, TRUE)
  ELSE IF ev = "no_element" THEN Outcome("none", FALSE, FALSE)
  ELSE Outcome("raise", FALSE, FALSE)

\* _render_online_api: ev = <<answer of mermaid.ink, answer of kroki.io>>, the
\* endpoints tried in order, every error caught inside the loop
render_online_api(code, ev) ==
  IF ev[1] = "png" THEN Outcome("path", FALSE, TRUE)
  ELSE IF ev[2] = "png"
  THEN [Outcome("path", FALSE, TRUE) EXCEPT !.raised = ev[1] = "error"]
  ELSE [Outcome("none", FALSE, FALSE) EXCEPT !.raised = "error" \in {ev[1], ev[2]}]

\* what the environment can answer to one strategy invocation
Events(m) ==
  IF m = "pure_python" THEN {"ok", "exception"}
  ELSE IF m \in {"playwright", "pyppeteer"} THEN {"ok", "no_element", "timeout"}
  ELSE {"png", "bad", "error"} \X {"png", "bad", "error"}

\* variant of CheckedBy: the fixer is not called on an invalid source
CheckedUnfixed(code, v) ==
  [validated |-> IF HAS_SYNTAX_FIXER THEN 1 ELSE 0, fixed |-> 0, text |-> code]

\* lines 77-83 given the validator's answer v: the validator and fixer runs
\* and the text handed to the strategy (the fixed text is not validated again)
CheckedBy(code, v) ==
  IF ~HAS_SYNTAX_FIXER THEN [validated |-> 0, fixed |-> 0, text |-> code]
  ELSE IF v.valid THEN [validated |-> 1, fixed |-> 0, text |-> code]
  ELSE [validated |-> 1, fixed |-> 1, text |-> fix_mermaid_syntax(code)]

\* lines 77-83
Checked(code) == CheckedBy(code, validate_mermaid_syntax(code))

\* the per-kind routine PurePythonMermaidRenderer.render runs for a kind
RoutineOfKind(kind) == IF kind = "unsupported" THEN "none" ELSE kind

\* lines 77-90 for a checked source: what render hands to the strategy, and
\* what the pure-Python strategy does with it under each event
Handled(ck) ==
  [validated |-> ck.validated, fixed |-> ck.fixed, text |-> ck.text,
   routine |-> RoutineOfKind(DiagramKind(ck.text)),
   pure |-> [ev \in {"ok", "exception"} |-> render_pure_python(ck.text, ev)]]

\* the content-dependent part of render and of replace_mermaid, per source
SourceFacts ==
  [s \in Sources |-> Handled(Checked(Src[s]))]

\* variant of Dispatch: the try/except of lines 85-102 is missing
DispatchUncaught(m, a, ev) ==
  IF m = "pure_python" THEN a.pure[ev]
  ELSE IF m = "playwright" THEN render_playwright(a.text, ev)
  ELSE IF m = "pyppeteer" THEN render_pyppeteer(a.text, ev)
  ELSE render_online_api(a.text, ev)

\* lines 85-102: the dispatch on self.method inside try/except
Dispatch(m, a, ev) ==
  Catch(IF m = "pure_python" THEN a.pure[ev]
        ELSE IF m = "playwright" THEN render_playwright(a.text, ev)
        ELSE IF m = "pyppeteer" THEN render_pyppeteer(a.text, ev)
        ELSE render_online_api(a.text, ev), "none")

\* the record of one call of MermaidRenderer.render
\*   existed   the target was on disk when render was called
\*   validated, fixed   the number of validator and fixer runs
\*   strategy  the strategy invoked ("none": not invoked)
\*   routine   the per-kind routine of the pure-Python renderer that ran
\*   drew, wrote, raised, py, ret   as in Outcome
Call(existed, validated, fixed, strategy, routine, r) ==
  [existed |-> existed, validated |-> validated, fixed |-> fixed,
   strategy |-> strategy, routine |-> routine, drew |-> r.drew,
   wrote |-> r.wrote, raised |-> r.raised, py |-> r.py, ret |-> r.ret]

\* lines 77-102: render when the target is not on disk
RenderFresh(m, a, existed, ev) ==
  Call(existed, a.validated, a.fixed, m,
       IF m = "pure_python" THEN a.routine ELSE "none", Dispatch(m, a, ev))

\* variant of render: the strategy runs whether or not the target is on disk
RenderOver(m, s, path, fs, ev) == RenderFresh(m, SourceFacts[s], path \in fs, ev)

\* MermaidRenderer.render on source s
render(m, s, path, fs, ev) ==
  IF CacheHit(path, fs)
  THEN Call(path \in fs, 0, 0, "none", "none", Outcome("path", FALSE, FALSE))
  ELSE RenderFresh(m, SourceFacts[s], path \in fs, ev)

(***************************************************************************)
(* mermaid_renderer.py: convert_mermaid_to_images                          *)
(***************************************************************************)
\* lines 303-314: the chart-type label
ChartLabel(first_line) ==
  IF StartsWith(first_line, W_graph) THEN "Flowchart"
  ELSE IF StartsWith(first_line, W_pie) THEN "Pie"
  ELSE IF StartsWith(first_line, W_gantt) THEN "Gantt"
  ELSE IF StartsWith(first_line, Lower(valid_types[3])) THEN "Sequence"
  ELSE "Diagram"

\* line 303: mermaid_code.split('\n')[0].strip().lower()
ChartType(code) == ChartLabel(Lower(Strip(Lines(code)[1])))

ChartTypeOf == [s \in Sources |-> ChartType(Src[s])]

\* range(2), line 319
Attempts == 2

\* variant of LoopDone: the loop has no break
LoopNoBreak(ret, made) == made >= Attempts

\* lines 319-322: the retry loop ends on a result or after the last attempt
LoopDone(ret, made) == ret = "path" \/ made >= Attempts

\* variant of AfterBlock: a failed block ends the substitution
AfterBlockStop(res, n, total) ==
  IF res = None \/ n >= total THEN "return" ELSE "block"

\* re.sub, line 341: after a block, the next match or the end of the text
AfterBlock(res, n, total) == IF n < total THEN "block" ELSE "return"

VARIABLES
  installed,      \* the optional packages that import in this process
  files,          \* the paths present in the output directory
  doc,            \* the document converted by every call
  pc,             \* "idle", "block", "render", "finish", "return", "crashed"
  runs,           \* convert_mermaid_to_images calls started
  method,         \* renderer.method of the current call
  probes,         \* _detect_method runs so far
  counter,        \* counter[0]
  attempt,        \* render calls made for the current block
  result,         \* result of the last render call (None or a path)
  success_count,
  fail_count,
  out,            \* the replacement of each block handled so far
  calls,          \* history: the render calls made for the current block
  prev,           \* history: out of the previous call
  \* _render_graph: the parse loop and the graph built from it
  gpc,            \* "off", "parse", "no_nodes", "built"
  glines,         \* history: the names of the lines read so far
  nodes,          \* the nodes dict, in insertion order: <<[id, label], ...>>
  edges,          \* the edges list: <<[from, to, label], ...>>
  G,              \* the DiGraph: [nodes: ids in order, edges: <<from, to>> in order]
  \* _hierarchical_layout
  lpc,            \* "off", "start", "bfs", "fill", "place", "done"
  vertical,       \* the argument vertical
  levels,         \* the levels dict, in insertion order: <<[node, level], ...>>
  visited,
  current_level,
  cursor,         \* the position of the for loop in current_level
  next_level,
  level_num,
  pos,            \* the result: node -> [x, y], each a fraction [n, d]
  \* _render_pie
  ppc,            \* "off", "parse", "no_data", "failed", "drawn"
  sizes,          \* the values parsed so far
  pct,            \* the percentages printed on the wedges, in tenths
  \* fix_mermaid_syntax applied to a source
  fpc,            \* "off", "type", "fixed", "again"
  fhead,          \* the header of the source
  fbody,          \* the tokens typed after the header
  fonce,          \* fix_mermaid_syntax(source)
  ftwice,         \* fix_mermaid_syntax(fix_mermaid_syntax(source))
  \* _render_graph: the nodes drawn
  shapes,         \* the patch and the text drawn for each node: <<[id, shape, text], ...>>
  \* the browser of _render_playwright and _render_pyppeteer
  bpc,            \* "off", "idle", or the step of the strategy that ran last
  bstrategy,      \* the strategy of the render under way
  bopen,          \* browsers launched and not released so far
  bexit,          \* how the last render left: "none", "path", "None", "raise"
  bdone           \* renders that have left

convVars ==
  <<installed, files, doc, pc, runs, method, probes, counter, attempt, result,
    success_count, fail_count, out, calls, prev>>

graphVars == <<gpc, glines, nodes, edges, G>>

layoutVars ==
  <<lpc, vertical, levels, visited, current_level, cursor, next_level, level_num, pos>>

pieVars == <<ppc, sizes, pct>>

fixVars == <<fpc, fhead, fbody, fonce, ftwice>>

drawVars == <<shapes>>

browserVars == <<bpc, bstrategy, bopen, bexit, bdone>>

vars ==
  <<installed, files, doc, pc, runs, method, probes, counter, attempt, result,
    success_count, fail_count, out, calls, prev,
    gpc, glines, nodes, edges, G,
    lpc, vertical, levels, visited, current_level, cursor, next_level, level_num, pos,
    ppc, sizes, pct,
    fpc, fhead, fbody, fonce, ftwice,
    shapes,
    bpc, bstrategy, bopen, bexit, bdone>>

\* nx.DiGraph(), line 153
EmptyDiGraph == [nodes |-> <<>>, edges |-> <<>>]

\* no conversion is under way
ConvOff ==
  /\ installed = {} /\ files = {} /\ doc = <<>> /\ pc = "off" /\ runs = 0
  /\ method = "unset" /\ probes = 0 /\ counter = 0 /\ attempt = 0
  /\ result = None /\ success_count = 0 /\ fail_count = 0
  /\ out = <<>> /\ calls = <<>> /\ prev = <<>>

\* no graph is being parsed
GraphOff ==
  gpc = "off" /\ glines = <<>> /\ nodes = <<>> /\ edges = <<>> /\ G = EmptyDiGraph

\* no _hierarchical_layout call is under way
LayoutOff ==
  /\ lpc = "off" /\ vertical = TRUE /\ levels = <<>> /\ visited = {}
  /\ current_level = <<>> /\ cursor = 0 /\ next_level = <<>> /\ level_num = 0
  /\ pos = <<>>

\* no pie is being rendered
PieOff == ppc = "off" /\ sizes = <<>> /\ pct = <<>>

\* fix_mermaid_syntax applied to a source: not under way
FixOff ==
  fpc = "off" /\ fhead = "none" /\ fbody = <<>> /\ fonce = <<>> /\ ftwice = <<>>

\* _render_graph: the nodes drawn: not under way
DrawOff ==
  shapes = <<>>

\* the browser of _render_playwright and _render_pyppeteer: not under way
BrowserOff ==
  bpc = "off" /\ bstrategy = "none" /\ bopen = 0 /\ bexit = "none" /\ bdone = 0

ConvInit ==
  /\ GraphOff /\ LayoutOff /\ PieOff /\ FixOff /\ DrawOff /\ BrowserOff
  /\ installed \in SUBSET Packages
  /\ doc \in Docs
  /\ files \in SUBSET PathsOf(doc)
  /\ pc = "idle"
  /\ runs = 0
  /\ method = "unset"
  /\ probes = 0
  /\ counter = 0
  /\ attempt = 0
  /\ result = None
  /\ success_count = 0
  /\ fail_count = 0
  /\ out = <<>>
  /\ calls = <<>>
  /\ prev = <<>>

\* variant of ProbesAfterInit: the renderer is built without a probe
ProbesAfterNoProbe(n) == n

\* MermaidRenderer.__init__, line 27: the one call of _detect_method
ProbesAfterInit(n) == n + 1

\* lines 282-290: a call begins; MermaidRenderer(output_dir) probes the method
ConvertStart ==
  /\ pc = "idle"
  /\ runs < MaxRuns
  /\ runs' = runs + 1
  /\ method' = DetectMethod(installed)
  /\ probes' = ProbesAfterInit(probes)
  /\ counter' = 0
  /\ attempt' = 0
  /\ result' = None
  /\ success_count' = 0
  /\ fail_count' = 0
  /\ out' = <<>>
  /\ calls' = <<>>
  /\ pc' = IF Len(doc) = 0 THEN "return" ELSE "block"
  /\ UNCHANGED <<installed, files, doc, prev>>
  /\ UNCHANGED <<graphVars, layoutVars, pieVars, fixVars, drawVars, browserVars>>

\* replace_mermaid, lines 292-318: the next match
BeginBlock ==
  /\ pc = "block"
  /\ counter' = counter + 1
  /\ attempt' = 0
  /\ result' = None
  /\ calls' = <<>>
  /\ pc' = "render"
  /\ UNCHANGED <<installed, files, doc, runs, method, probes, success_count,
                 fail_count, out, prev>>
  /\ UNCHANGED <<graphVars, layoutVars, pieVars, fixVars, drawVars, browserVars>>

\* lines 319-324: one iteration of the retry loop, the render call included
Rendered(path, c) ==
  /\ calls' = Append(calls, c)
  /\ files' = IF c.wrote THEN files \cup {path} ELSE files
  /\ attempt' = attempt + 1
  /\ result' = IF c.ret = "path" THEN path ELSE None
  /\ pc' = IF c.ret = "raise" THEN "crashed"
           ELSE IF LoopDone(c.ret, attempt + 1) THEN "finish"
           ELSE "render"

RenderTo(path, ev) == Rendered(path, render(method, doc[counter], path, files, ev))

RenderAttempt ==
  /\ pc = "render"
  /\ \E ev \in Events(method) : RenderTo(BlockPath(counter, doc[counter]), ev)
  /\ UNCHANGED <<installed, doc, runs, method, probes, counter, success_count,
                 fail_count, out, prev>>
  /\ UNCHANGED <<graphVars, layoutVars, pieVars, fixVars, drawVars, browserVars>>

\* lines 326-338: the replacement text and the counters
FinishBlock ==
  /\ pc = "finish"
  /\ success_count' = IF result # None THEN success_count + 1 ELSE success_count
  /\ fail_count' = IF result # None THEN fail_count ELSE fail_count + 1
  /\ out' = Append(out, [kind |-> IF result # None THEN "image" ELSE "fallback",
                         label |-> ChartTypeOf[doc[counter]],
                         n |-> counter, path |-> result])
  \* line 327: os.path.getsize(result) raises when the file is missing
  /\ pc' = IF result # None /\ result \notin files THEN "crashed"
           ELSE AfterBlock(result, counter, Len(doc))
  /\ UNCHANGED <<installed, files, doc, runs, method, probes, counter, attempt,
                 result, calls, prev>>
  /\ UNCHANGED <<graphVars, layoutVars, pieVars, fixVars, drawVars, browserVars>>

\* lines 341-353: re.sub has handled every match; the call returns
ConvertReturn ==
  /\ pc = "return"
  /\ pc' = "idle"
  /\ prev' = out
  /\ UNCHANGED <<installed, files, doc, runs, method, probes, counter, attempt,
                 result, success_count, fail_count, out, calls>>
  /\ UNCHANGED <<graphVars, layoutVars, pieVars, fixVars, drawVars, browserVars>>

ConvNext ==
  \/ ConvertStart
  \/ BeginBlock
  \/ RenderAttempt
  \/ FinishBlock
  \/ ConvertReturn

Spec == ConvInit /\ [][ConvNext]_vars

(***************************************************************************)
(* mermaid_python_renderer.py: _render_graph, the parse loop and the graph *)
(***************************************************************************)
\* lines read after the header
MaxLines == 3

\* the flowchart lines the model's graph sources are made of, by name
LineSrc ==
  [ AB |-> <<"A"," ","-","-",">"," ","B">>,
    AC |-> <<"A"," ","-","-",">"," ","C">>,
    CB |-> <<"C","-","-",">","B">>,
    BA |-> <<"B"," ","-","-",">"," ","A">>,
    AsB |-> <<"A","[","S","t","a","r","t","]"," ","-","-",">"," ","B","{","O","k","}">>,
    Lab |-> <<"A"," ","-","-",">","|","y","e","s","|"," ","B">>,
    NoFrom |-> <<"-","-",">"," ","C">>,
    NoTo |-> <<"D"," ","-","-">>,
    Und |-> <<"B"," ","-","-"," ","C">>,
    Decl |-> <<"C","[","x","]">>,
    Brace |-> <<"A","[","a","{","b","]"," ","-","-",">"," ","B">> ]

LineNames == DOMAIN LineSrc

\* the lines that use no bracket syntax
BareLines ==
  {l \in LineNames : ~Contains(LineSrc[l], <<"[">>) /\ ~Contains(LineSrc[l], <<"{">>)}

\* G.add_edge(from_node, to_node) in edge order, lines 160-162: an edge is
\* added when both ends are keys of the node map; adding it again changes nothing
RECURSIVE AddEdges(_, _, _)
AddEdges(es, ids, acc) ==
  IF Len(es) = 0 THEN acc
  ELSE AddEdges(Tail(es), ids,
                IF /\ es[1].from \in ids /\ es[1].to \in ids
                   /\ \A k \in DOMAIN acc : acc[k] # <<es[1].from, es[1].to>>
                THEN Append(acc, <<es[1].from, es[1].to>>)
                ELSE acc)

\* lines 153-162: the DiGraph of a parsed model
DiGraphOf(ns, es) ==
  [nodes |-> [k \in DOMAIN ns |-> ns[k].id],
   edges |-> AddEdges(es, {ns[k].id : k \in DOMAIN ns}, <<>>)]

GraphInit ==
  /\ ConvOff /\ LayoutOff /\ PieOff /\ FixOff /\ DrawOff /\ BrowserOff
  /\ gpc = "parse" /\ glines = <<>> /\ nodes = <<>> /\ edges = <<>>
  /\ G = EmptyDiGraph

ReadAs(l, model) ==
  /\ glines' = Append(glines, l)
  /\ nodes' = model.nodes
  /\ edges' = model.edges

\* lines 139-146: one iteration of the loop over lines[1:]
ReadLine ==
  /\ gpc = "parse"
  /\ Len(glines) < MaxLines
  /\ \E l \in LineNames :
        ReadAs(l, GraphLineStep(LineSrc[l], [nodes |-> nodes, edges |-> edges]))
  /\ UNCHANGED <<gpc, G>>
  /\ UNCHANGED <<convVars, layoutVars, pieVars, fixVars, drawVars, browserVars>>

\* lines 148-150: the source had no node; _render_graph returns False
NoNodes ==
  /\ gpc = "parse"
  /\ nodes = <<>>
  /\ gpc' = "no_nodes"
  /\ UNCHANGED <<glines, nodes, edges, G>>
  /\ UNCHANGED <<convVars, layoutVars, pieVars, fixVars, drawVars, browserVars>>

\* lines 152-162: the DiGraph is built
BuildGraph ==
  /\ gpc = "parse"
  /\ nodes # <<>>
  /\ G' = DiGraphOf(nodes, edges)
  /\ gpc' = "built"
  /\ UNCHANGED <<glines, nodes, edges>>
  /\ UNCHANGED <<convVars, layoutVars, pieVars, fixVars, drawVars, browserVars>>

\* str.replace(c, '') for a character c
Without(s, c) == SelectSeq(s, LAMBDA x : x # c)

\* lines 225-227: clean_label
CleanLabel(label) ==
  Strip(Without(Without(Without(Without(label, "["), "]"), "{"), "}"))

\* lines 197-221: the patch chosen for a node, from its label
ShapeOfLabel(label) ==
  IF Contains(label, <<"{">>) THEN "decision"
  ELSE IF Contains(label, <<"[">>) THEN "rectangle"
  ELSE "rounded"

\* lines 193-232: every node of the layout is drawn
DrawNodes ==
  /\ gpc = "built"
  /\ shapes' = [k \in DOMAIN nodes |->
                  [id |-> nodes[k].id,
                   shape |-> ShapeOfLabel(nodes[k].label),
                   text |-> CleanLabel(nodes[k].label)]]
  /\ gpc' = "drawn"
  /\ UNCHANGED <<glines, nodes, edges, G>>
  /\ UNCHANGED <<convVars, layoutVars, pieVars, fixVars, browserVars>>

GraphNext ==
  \/ ReadLine
  \/ NoNodes
  \/ BuildGraph
  \/ DrawNodes

SpecGraph == GraphInit /\ [][GraphNext]_vars

(***************************************************************************)
(* mermaid_python_renderer.py: _hierarchical_layout                        *)
(***************************************************************************)
\* nodes and edges of the graphs laid out
MaxNodes == 4

MaxEdges == 4

\* the DiGraph on n nodes, numbered in insertion order, with the edges es in
\* insertion order (self-loops included)
DiGraphOn(n, es) == [nodes |-> [k \in 1..n |-> k], edges |-> es]

\* G.in_degree(n)
InDegree(g, n) == Cardinality({k \in DOMAIN g.edges : g.edges[k][2] = n})

\* the edges of g that leave n, in insertion order
EdgesFrom(g, n) == SelectSeq(g.edges, LAMBDA e : e[1] = n)

Targets(es) == [k \in DOMAIN es |-> es[k][2]]

\* G.successors(n)
Successors(g, n) == Targets(EdgesFrom(g, n))

\* lines 351-354
RootsOr(g, roots) == IF roots = <<>> THEN <<g.nodes[1]>> ELSE roots

Roots(g) == RootsOr(g, SelectSeq(g.nodes, LAMBDA n : InDegree(g, n) = 0))

\* lines 369-371: the successors appended to next_level
Unvisited(succ, seen) == SelectSeq(succ, LAMBDA n : n \notin seen)

\* levels[node]
LevelOf(lv, node) == lv[CHOOSE k \in DOMAIN lv : lv[k].node = node].level

\* lines 376-378: the nodes without a level, in node order, at level num
Unreached(g, lv, num) ==
  [k \in DOMAIN SelectSeq(g.nodes, LAMBDA n : \A j \in DOMAIN lv : lv[j].node # n) |->
     [node |-> SelectSeq(g.nodes, LAMBDA n : \A j \in DOMAIN lv : lv[j].node # n)[k],
      level |-> num]]

\* max(levels.values()), line 389
MaxLevel(lv) == Max({lv[k].level : k \in DOMAIN lv})

\* a fraction n / d with d > 0
Frac(n, d) == [n |-> n, d |-> d]

\* (index_in_level - (num_in_level - 1) / 2) * 0.3, lines 398 and 404
Across(index_in_level, num_in_level) ==
  Frac(3 * (2 * index_in_level - (num_in_level - 1)), 20)

\* (level / max(max_level, 1)) * 0.8, lines 399 and 403
Along(level, max_level) == Frac(4 * level, 5 * Max({max_level, 1}))

\* 1.0 - q, line 399
OneMinus(q) == Frac(q.d - q.n, q.d)

\* lines 391-405 for entry k of levels
Position(lv, k, vert) ==
  IF vert
  THEN [x |-> Across(Cardinality({j \in 1..(k - 1) : lv[j].level = lv[k].level}),
                     Cardinality({j \in DOMAIN lv : lv[j].level = lv[k].level})),
        y |-> OneMinus(Along(lv[k].level, MaxLevel(lv)))]
  ELSE [x |-> Along(lv[k].level, MaxLevel(lv)),
        y |-> Across(Cardinality({j \in 1..(k - 1) : lv[j].level = lv[k].level}),
                     Cardinality({j \in DOMAIN lv : lv[j].level = lv[k].level}))]

\* lines 388-407: pos
Positions(lv, vert) ==
  [n \in {lv[k].node : k \in DOMAIN lv} |->
     Position(lv, CHOOSE k \in DOMAIN lv : lv[k].node = n, vert)]

\* ax.set_xlim(-0.3, 1.3), ax.set_ylim(-0.3, 1.3), lines 263-264
InViewport(q) == -3 * q.d <= 10 * q.n /\ 10 * q.n <= 13 * q.d

LayoutInit ==
  /\ ConvOff /\ PieOff /\ FixOff /\ DrawOff /\ BrowserOff
  /\ gpc = "off" /\ glines = <<>> /\ nodes = <<>> /\ edges = <<>>
  /\ \E n \in 1..MaxNodes : \E m \in 0..MaxEdges :
        \E es \in [1..m -> (1..n) \X (1..n)] :
           /\ \A i, j \in 1..m : es[i] = es[j] => i = j
           /\ G = DiGraphOn(n, es)
  /\ vertical \in BOOLEAN
  /\ lpc = "start"
  /\ levels = <<>> /\ visited = {} /\ current_level = <<>> /\ cursor = 0
  /\ next_level = <<>> /\ level_num = 0 /\ pos = <<>>

\* lines 351-360
LayoutStart ==
  /\ lpc = "start"
  /\ current_level' = Roots(G)
  /\ cursor' = 1
  /\ levels' = <<>>
  /\ visited' = {}
  /\ next_level' = <<>>
  /\ level_num' = 0
  /\ lpc' = "bfs"
  /\ UNCHANGED <<vertical, pos>>
  /\ UNCHANGED <<convVars, graphVars, pieVars, fixVars, drawVars, browserVars>>

\* variant of NotVisited: the traversal has no visited-set guard
NotVisitedAny(node, seen) == TRUE

\* line 365: if node not in visited
NotVisited(node, seen) == node \notin seen

\* lines 364-371: one iteration of the for loop over current_level
Visit ==
  /\ lpc = "bfs"
  /\ cursor <= Len(current_level)
  /\ IF NotVisited(current_level[cursor], visited)
     THEN /\ levels' = Append(levels, [node |-> current_level[cursor],
                                       level |-> level_num])
          /\ visited' = visited \cup {current_level[cursor]}
          /\ next_level' = next_level \o
                Unvisited(Successors(G, current_level[cursor]),
                          visited \cup {current_level[cursor]})
     ELSE UNCHANGED <<levels, visited, next_level>>
  /\ cursor' = cursor + 1
  /\ UNCHANGED <<lpc, vertical, current_level, level_num, pos>>
  /\ UNCHANGED <<convVars, graphVars, pieVars, fixVars, drawVars, browserVars>>

\* lines 372-373 and the test of the while loop, line 362
EndLevel ==
  /\ lpc = "bfs"
  /\ cursor > Len(current_level)
  /\ level_num' = level_num + 1
  /\ current_level' = next_level
  /\ next_level' = <<>>
  /\ cursor' = 1
  /\ lpc' = IF next_level = <<>> THEN "fill" ELSE "bfs"
  /\ UNCHANGED <<vertical, levels, visited, pos>>
  /\ UNCHANGED <<convVars, graphVars, pieVars, fixVars, drawVars, browserVars>>

\* lines 376-378: the nodes the traversal did not reach
Fill ==
  /\ lpc = "fill"
  /\ levels' = levels \o Unreached(G, levels, level_num)
  /\ lpc' = "place"
  /\ UNCHANGED <<vertical, visited, current_level, cursor, next_level, level_num, pos>>
  /\ UNCHANGED <<convVars, graphVars, pieVars, fixVars, drawVars, browserVars>>

\* lines 380-407: the positions
Place ==
  /\ lpc = "place"
  /\ pos' = Positions(levels, vertical)
  /\ lpc' = "done"
  /\ UNCHANGED <<vertical, levels, visited, current_level, cursor, next_level,
                 level_num>>
  /\ UNCHANGED <<convVars, graphVars, pieVars, fixVars, drawVars, browserVars>>

LayoutNext ==
  \/ LayoutStart
  \/ Visit
  \/ EndLevel
  \/ Fill
  \/ Place

SpecLayout == LayoutInit /\ [][LayoutNext]_vars

\* the function runs to its end: no step of it waits for anything
SpecLayoutFair == SpecLayout /\ WF_vars(LayoutNext)

(***************************************************************************)
(* mermaid_python_renderer.py: _render_pie, the data and the percentages   *)
(***************************************************************************)
\* entries of a pie and the largest value of an entry
MaxEntries == 6

MaxValue == 2

\* the values float() yields for the data lines; a negative one is accepted
PieValues == (0 - 1)..MaxValue

RECURSIVE SumSeq(_)
SumSeq(q) == IF Len(q) = 0 THEN 0 ELSE q[1] + SumSeq(Tail(q))

\* variant of RoundTenth: the percentage is cut after its first decimal
TruncTenth(num, den, up) == num \div den

\* '%1.1f' of the fraction num / den, in tenths: the nearest tenth; up decides
\* a fraction half-way between two tenths, which the float may fall either
\* side of
RoundTenth(num, den, up) ==
  IF 2 * (num % den) < den THEN num \div den
  ELSE IF 2 * (num % den) > den THEN (num \div den) + 1
  ELSE IF up THEN (num \div den) + 1
  ELSE num \div den

\* autopct='%1.1f%%', line 91: the label of each wedge, 100 * x / sum(x)
Percentages(q, total, ups) ==
  [i \in DOMAIN q |-> RoundTenth(1000 * q[i], total, ups[i])]

PieInit ==
  /\ ConvOff /\ GraphOff /\ LayoutOff /\ FixOff /\ DrawOff /\ BrowserOff
  /\ ppc = "parse" /\ sizes = <<>> /\ pct = <<>>

\* lines 64-75: one data line whose value float() accepts
AddEntry ==
  /\ ppc = "parse"
  /\ Len(sizes) < MaxEntries
  /\ \E v \in PieValues : sizes' = Append(sizes, v)
  /\ UNCHANGED <<ppc, pct>>
  /\ UNCHANGED <<convVars, graphVars, layoutVars, fixVars, drawVars, browserVars>>

\* lines 77-79: no data; _render_pie returns False
NoData ==
  /\ ppc = "parse"
  /\ sizes = <<>>
  /\ ppc' = "no_data"
  /\ UNCHANGED <<sizes, pct>>
  /\ UNCHANGED <<convVars, graphVars, layoutVars, fixVars, drawVars, browserVars>>

\* lines 88-95, 119-121: ax.pie raises on a negative value; the exception is
\* caught and _render_pie returns False
DrawFails ==
  /\ ppc = "parse"
  /\ \E i \in DOMAIN sizes : sizes[i] < 0
  /\ ppc' = "failed"
  /\ UNCHANGED <<sizes, pct>>
  /\ UNCHANGED <<convVars, graphVars, layoutVars, fixVars, drawVars, browserVars>>

\* lines 88-95: the values of a pie of total 0 are divided by 0; the library
\* either raises or draws wedges whose labels are not numbers
DrawZero ==
  /\ ppc = "parse"
  /\ sizes # <<>>
  /\ \A i \in DOMAIN sizes : sizes[i] = 0
  /\ \E o \in {"failed", "not_a_number"} : ppc' = o
  /\ UNCHANGED <<sizes, pct>>
  /\ UNCHANGED <<convVars, graphVars, layoutVars, fixVars, drawVars, browserVars>>

\* lines 81-117: the pie is drawn with its percentage labels
DrawPie ==
  /\ ppc = "parse"
  /\ sizes # <<>>
  /\ \A i \in DOMAIN sizes : sizes[i] >= 0
  /\ SumSeq(sizes) > 0
  /\ \E ups \in [DOMAIN sizes -> BOOLEAN] :
        pct' = Percentages(sizes, SumSeq(sizes), ups)
  /\ ppc' = "drawn"
  /\ UNCHANGED sizes
  /\ UNCHANGED <<convVars, graphVars, layoutVars, fixVars, drawVars, browserVars>>

PieNext ==
  \/ AddEntry
  \/ NoData
  \/ DrawFails
  \/ DrawZero
  \/ DrawPie

SpecPie == PieInit /\ [][PieNext]_vars

(***************************************************************************)
(* fix_mermaid_syntax.py: the fixer applied to a source, and applied again *)
(***************************************************************************)
\* tokens typed after the header of a source
MaxTokens == 4

\* the headers of the sources handed to the fixer
FixHeaders ==
  [ graph |-> <<"g","r","a","p","h"," ","T","D">>,
    flowchart |-> <<"f","l","o","w","c","h","a","r","t"," ","T","D">>,
    pie |-> <<"p","i","e"," ","t","i","t","l","e"," ","T">>,
    gantt |-> <<"g","a","n","t","t">> ]

\* the pieces a flowchart body is typed from
GraphTokens ==
  {<<"A">>, <<"-","-",">">>, <<"-","-">>, <<" ">>, <<"\n">>, <<"{","x","}">>,
   <<"[","x","]">>, <<"|","y","|">>}

\* the pieces a pie body is typed from
PieTokens == {<<"a">>, <<"1">>, <<":">>, <<"\"">>, <<"'">>, <<" ">>, <<"\n">>}

TokensOf(head) == IF head = "pie" THEN PieTokens ELSE GraphTokens

RECURSIVE Concat(_)
Concat(parts) == IF parts = <<>> THEN <<>> ELSE Head(parts) \o Concat(Tail(parts))

\* the source: the header, a line break and the body
SourceOf(head, body) == FixHeaders[head] \o <<NL>> \o Concat(body)

\* the title of a pie without one, line 56 (a two-character literal)
DefaultPieTitle == <<"pie chart">>

\* lines 56-59 of mermaid_python_renderer.py: the title of a pie
PieTitleOf(first) ==
  IF Contains(first, W_title)
  THEN Strip(Join(Tail(SplitOn(first, W_title)), W_title))
  ELSE DefaultPieTitle

PieTitle(mermaid_code) == PieTitleOf(Lines(Strip(mermaid_code))[1])

FixInit ==
  /\ ConvOff /\ GraphOff /\ LayoutOff /\ PieOff /\ DrawOff /\ BrowserOff
  /\ fpc = "type"
  /\ fhead \in DOMAIN FixHeaders
  /\ fbody = <<>> /\ fonce = <<>> /\ ftwice = <<>>

\* one more piece of the source text
TypeToken ==
  /\ fpc = "type"
  /\ Len(fbody) < MaxTokens
  /\ \E t \in TokensOf(fhead) : fbody' = Append(fbody, t)
  /\ UNCHANGED <<fpc, fhead, fonce, ftwice>>
  /\ UNCHANGED <<convVars, graphVars, layoutVars, pieVars, drawVars, browserVars>>

\* fix_mermaid_syntax(source), lines 8-59
FixOnce ==
  /\ fpc = "type"
  /\ fonce' = fix_mermaid_syntax(SourceOf(fhead, fbody))
  /\ fpc' = "fixed"
  /\ UNCHANGED <<fhead, fbody, ftwice>>
  /\ UNCHANGED <<convVars, graphVars, layoutVars, pieVars, drawVars, browserVars>>

\* fix_mermaid_syntax applied to its own output
FixTwice ==
  /\ fpc = "fixed"
  /\ ftwice' = fix_mermaid_syntax(fonce)
  /\ fpc' = "again"
  /\ UNCHANGED <<fhead, fbody, fonce>>
  /\ UNCHANGED <<convVars, graphVars, layoutVars, pieVars, drawVars, browserVars>>

FixNext ==
  \/ TypeToken
  \/ FixOnce
  \/ FixTwice

SpecFix == FixInit /\ [][FixNext]_vars

(***************************************************************************)
(* The browser of _render_playwright and _render_pyppeteer                 *)
(* (mermaid_renderer.py, lines 181-268), one step per call of the library  *)
(***************************************************************************)

\* renders followed
MaxRenders == 3

\* the two strategies that launch a headless browser
BrowserStrategies == {"playwright", "pyppeteer"}

\* the positions after which the next call of the strategy may raise: the
\* launch, new_page / newPage, set_content / setContent, wait_for_selector /
\* waitForSelector (the 10 s timeout), query_selector / querySelector, and
\* screenshot
RaisingPositions == {"entered", "launched", "paged", "loaded", "waited", "found"}

\* the browsers left open when an exception leaves the strategy at position at.
\* _render_playwright runs inside `with sync_playwright() as p:` (line 208):
\* leaving the block stops the driver p, which ends the browser it launched.
\* _render_pyppeteer has no handler and no finally around lines 237-266: the
\* exception leaves _render and run_until_complete with the browser running.
OpenAfterRaise(strategy, at, n) ==
  IF at = "entered" THEN n
  ELSE IF strategy = "playwright" THEN n - 1
  ELSE n

BrowserInit ==
  /\ ConvOff /\ GraphOff /\ LayoutOff /\ PieOff /\ FixOff /\ DrawOff
  /\ bpc = "idle"
  /\ bstrategy = "none"
  /\ bopen = 0
  /\ bexit = "none"
  /\ bdone = 0

\* render calls the strategy (lines 93-96): line 208, or line 268 starting _render
StartRender ==
  /\ bpc = "idle"
  /\ bdone < MaxRenders
  /\ \E strategy \in BrowserStrategies : bstrategy' = strategy
  /\ bpc' = "entered"
  /\ UNCHANGED <<bopen, bexit, bdone>>
  /\ UNCHANGED <<convVars, graphVars, layoutVars, pieVars, fixVars, drawVars>>

\* p.chromium.launch() (line 209), pyppeteer.launch() (line 237)
Launch ==
  /\ bpc = "entered"
  /\ bopen' = bopen + 1
  /\ bpc' = "launched"
  /\ UNCHANGED <<bstrategy, bexit, bdone>>
  /\ UNCHANGED <<convVars, graphVars, layoutVars, pieVars, fixVars, drawVars>>

\* browser.new_page() (line 210), browser.newPage() (line 238)
NewPage ==
  /\ bpc = "launched"
  /\ bpc' = "paged"
  /\ UNCHANGED <<bstrategy, bopen, bexit, bdone>>
  /\ UNCHANGED <<convVars, graphVars, layoutVars, pieVars, fixVars, drawVars>>

\* page.set_content (line 211), page.setContent (line 258)
SetContent ==
  /\ bpc = "paged"
  /\ bpc' = "loaded"
  /\ UNCHANGED <<bstrategy, bopen, bexit, bdone>>
  /\ UNCHANGED <<convVars, graphVars, layoutVars, pieVars, fixVars, drawVars>>

\* page.wait_for_selector('svg', timeout=10000) (line 214) and
\* page.waitForSelector (line 259) return: an svg appeared in time
WaitForSelector ==
  /\ bpc = "loaded"
  /\ bpc' = "waited"
  /\ UNCHANGED <<bstrategy, bopen, bexit, bdone>>
  /\ UNCHANGED <<convVars, graphVars, layoutVars, pieVars, fixVars, drawVars>>

\* page.query_selector('svg') (line 217), page.querySelector (line 261): the
\* element, or None
QuerySelector ==
  /\ bpc = "waited"
  /\ \E element \in {"found", "missing"} : bpc' = element
  /\ UNCHANGED <<bstrategy, bopen, bexit, bdone>>
  /\ UNCHANGED <<convVars, graphVars, layoutVars, pieVars, fixVars, drawVars>>

\* svg_element.screenshot (line 220), element.screenshot (line 263)
Screenshot ==
  /\ bpc = "found"
  /\ bpc' = "shot"
  /\ UNCHANGED <<bstrategy, bopen, bexit, bdone>>
  /\ UNCHANGED <<convVars, graphVars, layoutVars, pieVars, fixVars, drawVars>>

\* browser.close(): lines 221 and 224, line 265
Close ==
  /\ bpc \in {"shot", "missing"}
  /\ bopen' = bopen - 1
  /\ bpc' = IF bpc = "shot" THEN "closed" ELSE "closed_none"
  /\ UNCHANGED <<bstrategy, bexit, bdone>>
  /\ UNCHANGED <<convVars, graphVars, layoutVars, pieVars, fixVars, drawVars>>

\* return output_path (line 222), return None (line 225),
\* return output_path if element else None (line 266)
Return ==
  /\ bpc \in {"closed", "closed_none"}
  /\ bexit' = IF bpc = "closed" THEN "path" ELSE "None"
  /\ bdone' = bdone + 1
  /\ bpc' = "idle"
  /\ UNCHANGED <<bstrategy, bopen>>
  /\ UNCHANGED <<convVars, graphVars, layoutVars, pieVars, fixVars, drawVars>>

\* the next call raises and the exception leaves the strategy; render catches
\* it at lines 100-102
Raise ==
  /\ bpc \in RaisingPositions
  /\ bopen' = OpenAfterRaise(bstrategy, bpc, bopen)
  /\ bexit' = "raise"
  /\ bdone' = bdone + 1
  /\ bpc' = "idle"
  /\ UNCHANGED bstrategy
  /\ UNCHANGED <<convVars, graphVars, layoutVars, pieVars, fixVars, drawVars>>

BrowserNext ==
  \/ StartRender
  \/ Launch
  \/ NewPage
  \/ SetContent
  \/ WaitForSelector
  \/ QuerySelector
  \/ Screenshot
  \/ Close
  \/ Return
  \/ Raise

SpecBrowser == BrowserInit /\ [][BrowserNext]_vars

(***************************************************************************)
(* Properties of render and convert_mermaid_to_images                      *)
(***************************************************************************)
\* the validator's answer on each source, and on what the fixer makes of it
VerdictOf == [s \in Sources |-> validate_mermaid_syntax(Src[s])]

FixedVerdictOf ==
  [s \in Sources |-> validate_mermaid_syntax(fix_mermaid_syntax(Src[s]))]

\* the current block has got its replacement
Replaced == counter >= 1 /\ Len(out) = counter

\* C1: a render call that finds its target on disk returns the path and runs
\* neither the validator, nor the fixer, nor a strategy; and in a second
\* conversion of the document into the same directory every block that got an
\* image the first time gets the same path again without any strategy or
\* drawing routine being invoked
Thm_C1 ==
  /\ \A k \in DOMAIN calls :
       calls[k].existed => /\ calls[k].ret = "path"
                           /\ calls[k].validated = 0 /\ calls[k].fixed = 0
                           /\ calls[k].strategy = "none" /\ calls[k].routine = "none"
                           /\ ~calls[k].drew /\ ~calls[k].wrote
  /\ runs >= 2 /\ pc # "idle" =>
       /\ \A b \in DOMAIN out \cap DOMAIN prev :
             prev[b].kind = "image" =>
                out[b].kind = "image" /\ out[b].path = prev[b].path
       /\ pc \in {"render", "finish"} /\ prev[counter].kind = "image" =>
             \A k \in DOMAIN calls :
                calls[k].existed /\ calls[k].strategy = "none" /\ ~calls[k].drew

\* the second conversion has kept the fallback of the first block and reused,
\* with a single render call that drew nothing, the image of the second
Wit_C1 ==
  /\ runs = 2 /\ pc = "return" /\ Len(doc) = 2
  /\ prev[1].kind = "fallback" /\ out[1].kind = "fallback"
  /\ prev[2].kind = "image" /\ out[2].kind = "image"
  /\ Len(calls) = 1 /\ calls[1].existed

\* C2: per block at most two render calls, none after one that returned a
\* path, and every call of a block goes to the same strategy, the one selected
\* when the renderer was constructed
Thm_C2 ==
  /\ Len(calls) <= Attempts
  /\ \A k \in DOMAIN calls :
       /\ k < Len(calls) => calls[k].ret # "path"
       /\ calls[k].strategy = calls[1].strategy
       /\ calls[k].strategy \in {"none", DetectMethod(installed)}

\* a block whose first attempt failed and whose second attempt returned a path
Wit_C2 ==
  /\ Len(calls) = 2
  /\ calls[1].ret = "none" /\ calls[2].ret = "path"
  /\ calls[1].strategy = "pure_python"

\* C3 (as amended): when the validator reports a block invalid, the fixer is
\* applied once, nothing is validated again, the selected strategy is invoked
\* on every attempt, and the block gets the fallback text only after both
\* attempts have failed
Thm_C3 ==
  /\ \A k \in DOMAIN calls :
       ~calls[k].existed /\ ~VerdictOf[doc[counter]].valid =>
          /\ calls[k].validated = 1 /\ calls[k].fixed = 1
          /\ calls[k].strategy = method /\ method # "unset"
  /\ Replaced /\ ~VerdictOf[doc[counter]].valid /\ out[counter].kind = "fallback" =>
       /\ Len(calls) = Attempts
       /\ \A k \in DOMAIN calls : calls[k].strategy = method /\ calls[k].ret = "none"

\* the pie block without a colon, still invalid after the fixer, has been
\* handed twice to the pie routine, which found no data, and got the fallback
Wit_C3 ==
  /\ Replaced /\ doc[counter] = "PieNoColon"
  /\ ~VerdictOf["PieNoColon"].valid /\ ~FixedVerdictOf["PieNoColon"].valid
  /\ out[counter].kind = "fallback"
  /\ Len(calls) = 2
  /\ \A k \in 1..2 : calls[k].routine = "pie" /\ calls[k].fixed = 1 /\ ~calls[k].drew

\* C3 (as claimed): a block still invalid after the fixer is validated a
\* second time and no strategy is invoked for it
Cex_C3 ==
  \A k \in DOMAIN calls :
     /\ ~calls[k].existed
     /\ ~VerdictOf[doc[counter]].valid
     /\ ~FixedVerdictOf[doc[counter]].valid
     => calls[k].validated = 2 /\ calls[k].strategy = "none"

\* each unsupported header passes the validator unfixed and is turned down by
\* the pure-Python renderer without a per-kind routine
UnsupportedRejected ==
  \A s \in UnsupportedSources :
     /\ VerdictOf[s].valid
     /\ SourceFacts[s].fixed = 0 /\ SourceFacts[s].routine = "none"
     /\ \A ev \in Events("pure_python") :
           /\ ~SourceFacts[s].pure[ev].drew
           /\ SourceFacts[s].pure[ev].py = "False"

\* C4 (as amended): a block with a known but unsupported header is accepted by
\* the validator; the pure-Python renderer rejects it before any per-kind
\* routine runs, on each attempt, and the block gets the fallback after the
\* two attempts of the retry loop
Thm_C4 ==
  /\ UnsupportedRejected
  /\ counter >= 1 /\ doc[counter] \in UnsupportedSources =>
       /\ \A k \in DOMAIN calls :
             calls[k].strategy = "pure_python" =>
                /\ calls[k].validated = 1 /\ calls[k].fixed = 0
                /\ calls[k].routine = "none" /\ ~calls[k].drew
                /\ calls[k].py = "False" /\ calls[k].ret = "none"
       /\ Replaced /\ calls[1].strategy = "pure_python" =>
             out[counter].kind = "fallback" /\ Len(calls) = Attempts

\* a sequence diagram has been through both attempts and got the fallback
Wit_C4 ==
  /\ Replaced /\ doc[counter] = "Sequence"
  /\ out[counter].kind = "fallback"
  /\ Len(calls) = 2 /\ calls[2].py = "False"

\* C4 (as claimed): such a block, handed to the pure-Python renderer, gets the
\* fallback after a single attempt
Cex_C4 ==
  Replaced /\ doc[counter] \in UnsupportedSources
           /\ calls[1].strategy = "pure_python" =>
     /\ VerdictOf[doc[counter]].valid
     /\ \A k \in DOMAIN calls : calls[k].routine = "none"
     /\ out[counter].kind = "fallback"
     /\ Len(calls) = 1

\* C5: every block is replaced by exactly one image reference or fallback
\* block carrying its own ordinal and path, whatever happened to the blocks
\* before it; the call never stops early, and when it returns every block has
\* been handled and success_count + fail_count is the number of blocks
Thm_C5 ==
  /\ pc # "crashed"
  /\ success_count + fail_count = Len(out)
  /\ success_count = Cardinality({b \in DOMAIN out : out[b].kind = "image"})
  /\ Len(out) <= Len(doc)
  /\ \A b \in DOMAIN out :
       /\ out[b].n = b
       /\ out[b].kind \in {"image", "fallback"}
       /\ out[b].kind = "image" => out[b].path = BlockPath(b, doc[b])
       /\ out[b].kind = "fallback" => out[b].path = None
  /\ pc = "block" => Len(out) = counter /\ counter < Len(doc)
  /\ pc \in {"render", "finish"} => Len(out) = counter - 1 /\ counter <= Len(doc)
  /\ pc = "return" =>
       /\ Len(out) = Len(doc)
       /\ success_count + fail_count = Len(doc)

\* a call is about to return with a failed first block and a second block
\* that was rendered after it
Wit_C5 ==
  /\ pc = "return" /\ Len(doc) = 2 /\ runs = 1
  /\ out[1].kind = "fallback" /\ out[2].kind = "image"
  /\ calls[1].wrote /\ calls[1].strategy = method
  /\ fail_count = 1 /\ success_count = 1

\* C6: no render call raises, in the pure-Python renderer or in
\* MermaidRenderer: whatever was raised below, the call returns False / None
\* and is counted as one attempt
Thm_C6 ==
  /\ pc # "crashed"
  /\ \A k \in DOMAIN calls :
       /\ calls[k].ret \in {"path", "none"}
       /\ calls[k].py \in {"True", "False", "n/a"}
       /\ calls[k].raised /\ calls[k].strategy # "online_api" => calls[k].ret = "none"
       /\ calls[k].raised /\ calls[k].strategy = "pure_python" => calls[k].py = "False"
  /\ Len(calls) = attempt

\* the drawing code of a per-kind routine raised on both attempts; both calls
\* returned None and the block is about to get the fallback
Wit_C6 ==
  /\ pc = "finish" /\ attempt = 2 /\ result = None
  /\ \A k \in 1..2 : /\ calls[k].raised /\ calls[k].drew
                     /\ calls[k].py = "False" /\ calls[k].ret = "none"

(***************************************************************************)
(* Properties of the graph parser                                          *)
(***************************************************************************)
NodeIds == {nodes[k].id : k \in DOMAIN nodes}

\* C7: both ends of every edge of the model are keys of the node map, a node
\* that no line declared with brackets has its id as label, and the graph
\* built from the model has every node and every edge of it
Thm_C7 ==
  /\ \A k \in DOMAIN edges : edges[k].from \in NodeIds /\ edges[k].to \in NodeIds
  /\ \A k \in DOMAIN nodes : nodes[k].id # <<>> /\ nodes[k].label # <<>>
  /\ \A j, k \in DOMAIN nodes : nodes[j].id = nodes[k].id => j = k
  /\ (\A i \in DOMAIN glines : glines[i] \in BareLines) =>
        \A k \in DOMAIN nodes : nodes[k].label = nodes[k].id
  /\ gpc = "built" =>
        /\ {G.nodes[k] : k \in DOMAIN G.nodes} = NodeIds
        /\ {G.edges[k] : k \in DOMAIN G.edges} =
              {<<edges[k].from, edges[k].to>> : k \in DOMAIN edges}

\* a graph was built from three lines of which one gave an edge between a
\* declared node and another, one lost its source and one lost its target:
\* their other ends are nodes, created with label = id, and no edge hangs
Wit_C7 ==
  /\ gpc = "built"
  /\ glines = <<"AsB", "NoFrom", "NoTo">>
  /\ Len(edges) = 1 /\ Len(nodes) = 4
  /\ nodes[3].label = nodes[3].id /\ nodes[1].label # nodes[1].id

(***************************************************************************)
(* Properties of _hierarchical_layout                                      *)
(***************************************************************************)
\* the pairs <<a, b>> with a path of at most k edges from a to b
EdgeSet(g) == {g.edges[i] : i \in DOMAIN g.edges}

Extend(paths, es) ==
  paths \cup {<<q[1][1], q[2][2]>> : q \in {r \in paths \X es : r[1][2] = r[2][1]}}

RECURSIVE PathsUpTo(_, _)
PathsUpTo(g, k) ==
  IF k <= 1 THEN EdgeSet(g) ELSE Extend(PathsUpTo(g, k - 1), EdgeSet(g))

Acyclic(g) == \A n \in DOMAIN g.nodes : <<n, n>> \notin PathsUpTo(g, Len(g.nodes))

\* C8 (as claimed): in an acyclic graph the level strictly increases along
\* every edge, and every level lies between 0 and the largest level
Cex_C8 ==
  lpc = "done" /\ Acyclic(G) =>
     /\ \A k \in DOMAIN G.edges :
           LevelOf(levels, G.edges[k][2]) > LevelOf(levels, G.edges[k][1])
     /\ \A k \in DOMAIN levels :
           levels[k].level >= 0 /\ levels[k].level <= MaxLevel(levels)

\* C9 (as claimed): every node is placed inside the viewport [-0.3, 1.3] on
\* both axes
Cex_C9 ==
  lpc = "done" =>
     \A n \in DOMAIN pos : InViewport(pos[n].x) /\ InViewport(pos[n].y)

(***************************************************************************)
(* Properties of the pie percentages                                       *)
(***************************************************************************)
\* the distance of the sum of the printed percentages from 100.0, in tenths
PctOff == IF SumSeq(pct) >= 1000 THEN SumSeq(pct) - 1000 ELSE 1000 - SumSeq(pct)

\* C10 (as amended): the printed percentages of a drawn pie of n entries add
\* up to a value within 0.05 * n of 100.0, and within 0.1 when n <= 3
Thm_C10 ==
  ppc = "drawn" =>
     /\ Len(pct) = Len(sizes)
     /\ 2 * PctOff <= Len(sizes)
     /\ Len(sizes) <= 3 => PctOff <= 1

\* six equal entries are printed as 16.7% each, 100.2 in all
Wit_C10 ==
  /\ ppc = "drawn" /\ Len(sizes) = 6
  /\ \A i \in DOMAIN sizes : sizes[i] = sizes[1] /\ pct[i] = 167
  /\ PctOff = 2

\* C10 (as claimed): the printed percentages add up to a value within 0.1 of
\* 100.0 for any number of entries
Cex_C10 == ppc = "drawn" => PctOff <= 1

(***************************************************************************)
(* Properties of fix_mermaid_syntax                                        *)
(***************************************************************************)
\* the source the fixer was applied to
FixSource == SourceOf(fhead, fbody)

\* C11: fix_mermaid_syntax is idempotent: applied to its own output it returns
\* that output, for a pie, a graph and any other source
Thm_C11 == fpc = "again" => ftwice = fonce

\* a pie whose data line the fixer rewrote, fixed a second time
Wit_C11 ==
  /\ fpc = "again" /\ fhead = "pie"
  /\ fbody = <<<<"a">>, <<":">>, <<"1">>>>
  /\ fonce # Strip(FixSource)
  /\ ftwice = fonce

\* the header is one the validator and the renderer take for a flowchart
GraphKind(head) == head \in {"graph", "flowchart"}

\* C12: parsing the fixed text yields the model that parsing the source
\* yields: for a graph the same nodes, labels and ordered edges, for a pie the
\* same title and the same ordered entries
Cex_C12 ==
  fpc = "fixed" =>
     /\ GraphKind(fhead) => ParseGraph(fonce) = ParseGraph(FixSource)
     /\ fhead = "pie" =>
           /\ PieTitle(fonce) = PieTitle(FixSource)
           /\ PieEntries(fonce) = PieEntries(FixSource)

\* the spaces that end just before position i of s
RECURSIVE SpacesBefore(_, _)
SpacesBefore(s, i) ==
  IF i > 1 /\ s[i - 1] = " " THEN 1 + SpacesBefore(s, i - 1) ELSE 0

\* the spaces that start at position i of s
RECURSIVE SpacesFrom(_, _)
SpacesFrom(s, i) ==
  IF i <= Len(s) /\ s[i] = " " THEN 1 + SpacesFrom(s, i + 1) ELSE 0

\* the character of s at position i is part of a node reference
RefChar(s, i) == i >= 1 /\ i <= Len(s) /\ s[i] \notin {" ", NL, "-", ">"}

\* the places of s where the token op stands and is not part of a longer run
\* of dashes or of an arrow
TokenAt(s, op) ==
  {i \in Occurrences(s, op) :
      /\ ~(i > 1 /\ s[i - 1] = "-")
      /\ ~(i + Len(op) <= Len(s) /\ s[i + Len(op)] \in {"-", ">"})}

\* the token op at position i of s stands between two node references of
\* its line
Between(s, op, i) ==
  /\ RefChar(s, i - SpacesBefore(s, i) - 1)
  /\ RefChar(s, i + Len(op) + SpacesFrom(s, i + Len(op)))

\* exactly one space on each side of the token op at position i of s
OneSpaceEachSide(s, op, i) ==
  SpacesBefore(s, i) = 1 /\ SpacesFrom(s, i + Len(op)) = 1

Spaced(s, op) ==
  \A i \in TokenAt(s, op) : Between(s, op, i) => OneSpaceEachSide(s, op, i)

\* C13: in the fixed text of a graph or flowchart source every --> and every
\* -- that stands between two node references has exactly one space on each
\* side
Cex_C13 ==
  fpc = "fixed" /\ GraphKind(fhead) => Spaced(fonce, Arrow) /\ Spaced(fonce, Dashes)

(***************************************************************************)
(* Properties of the nodes drawn                                           *)
(***************************************************************************)
\* the bracket that opens the label of a node reference, "" for a bare id
OpenerAt(text, n, open) ==
  IF /\ n > 0 /\ open <= Len(text) /\ text[open] \in {"[", "{"}
     /\ FirstCloser(text, open) > open + 1
  THEN text[open]
  ELSE ""

OpenerOfText(text, n) == OpenerAt(text, n, SkipSpace(text, n + 1))

OpenerOf(raw) == OpenerOfText(Strip(raw), IdRun(Strip(raw), 1))

\* the node references written on the two sides of the arrow of a line:
\* [id, open]
RefsOfParts(parts) ==
  {[id |-> parse_node(parts[k]).id, open |-> OpenerOf(parts[k])] :
      k \in {j \in {1, 2} : j <= Len(parts) /\ parse_node(parts[j]).id # <<>>}}

RefsOfLine(line) ==
  IF Contains(line, Dashes) THEN RefsOfParts(SplitOn(line, EdgeOp(line))) ELSE {}

\* the node references of the lines read
RefsRead == UNION {RefsOfLine(LineSrc[glines[k]]) : k \in DOMAIN glines}

\* what is drawn for the node id
DrawnOf(id) == shapes[CHOOSE k \in DOMAIN shapes : shapes[k].id = id]

\* C14: a node written ID[label] is drawn as a rectangle, a node written
\* ID{label} as the decision shape, and a node only written bare as a rounded
\* box whose text is its id
Cex_C14 ==
  gpc = "drawn" =>
     \A r \in RefsRead :
        /\ r.open = "[" => DrawnOf(r.id).shape = "rectangle"
        /\ r.open = "{" => DrawnOf(r.id).shape = "decision"
        /\ (\A q \in RefsRead : q.id = r.id => q.open = "") =>
              DrawnOf(r.id).shape = "rounded" /\ DrawnOf(r.id).text = r.id

(***************************************************************************)
(* Properties of the chart-type label                                      *)
(***************************************************************************)
\* the label the kind of a block calls for
LabelOfKind(kind) ==
  IF kind = "graph" THEN "Flowchart"
  ELSE IF kind = "pie" THEN "Pie"
  ELSE IF kind = "gantt" THEN "Gantt"
  ELSE "Diagram"

\* C15: the label of every replacement follows the detected kind of its block
\* and is one of Flowchart, Pie, Gantt and Diagram
Cex_C15 ==
  \A k \in DOMAIN out :
     /\ out[k].label \in {"Flowchart", "Pie", "Gantt", "Diagram"}
     /\ out[k].label = LabelOfKind(DiagramKind(Src[doc[k]]))

WritesFresh(cs) ==
  \A k \in DOMAIN cs :
     cs[k].existed => cs[k].strategy = "none" /\ ~cs[k].wrote

\* C17: no step of a conversion removes a file from the output directory, the
\* only path a step adds is the target of the block being rendered, and a
\* strategy runs and writes only for a target that was not on disk when render
\* was called, on first attempts and on retries
Thm_C17 ==
  [][/\ files \subseteq files'
     /\ files' # files => pc = "render" /\ files' \ files = {BlockPath(counter, doc[counter])}
     /\ WritesFresh(calls')]_vars

\* in a second call, with files of the first on disk, a block fails its first
\* attempt and writes its file on the retry
Wit_C17 ==
  /\ runs = 2 /\ pc = "finish" /\ Len(calls) = 2
  /\ calls[1].strategy # "none" /\ ~calls[1].wrote
  /\ calls[2].wrote /\ ~calls[2].existed
  /\ Cardinality(files) >= 2

(***************************************************************************)
(* Properties of the traversal of _hierarchical_layout                     *)
(***************************************************************************)
\* no node has two entries in levels
LeveledOnce ==
  \A j, k \in DOMAIN levels : levels[j].node = levels[k].node => j = k

\* C18: the traversal ends for every graph, cyclic ones and ones with
\* self-loops included, and a level is assigned to a node at most once, so at
\* most |V| assignments are made
Thm_C18 ==
  /\ [](LeveledOnce /\ Len(levels) <= Len(G.nodes))
  /\ [](lpc = "bfs" => Cardinality(visited) = Len(levels))
  /\ <>(lpc = "done")

\* the layout of a graph with a cycle and a self-loop has ended
Wit_C18 ==
  /\ lpc = "done"
  /\ \E k \in DOMAIN G.edges : G.edges[k][1] = G.edges[k][2]
  /\ \E j, k \in DOMAIN G.edges :
        /\ G.edges[j][1] # G.edges[j][2]
        /\ G.edges[k] = <<G.edges[j][2], G.edges[j][1]>>
  /\ Len(levels) = Len(G.nodes)

\* the largest level the traversal assigned
MaxReached == Max({levels[k].level : k \in {j \in DOMAIN levels : levels[j].node \in visited}})

\* C19: every node the traversal did not reach has the largest level of the
\* reached nodes plus one
Cex_C19 ==
  lpc = "done" =>
     \A k \in DOMAIN levels :
        levels[k].node \notin visited => levels[k].level = MaxReached + 1


(***************************************************************************)
(* Properties of the browser strategies                                    *)
(***************************************************************************)

\* C20: whenever a render by a browser strategy has left, by a return or by
\* an exception, no browser it launched is still open
Cex_C20 == bpc = "idle" => bopen = 0


(***************************************************************************)
(* Properties of edge labels and of declared nodes                         *)
(***************************************************************************)
\* the text that follows the edge label |...| at the start of the target side
\* of a line, <<>> when the side does not start with one
AfterTargetLabel(to_part) ==
  IF /\ Len(to_part) > 1 /\ to_part[1] = "|"
     /\ \E j \in 2..Len(to_part) : to_part[j] = "|"
  THEN SubSeq(to_part, Min({j \in 2..Len(to_part) : to_part[j] = "|"}) + 1,
              Len(to_part))
  ELSE <<>>

\* the edge written by two parts X and |label| Y, as a set: [from, to]
LabelledEdgeOfParts(from, to) ==
  IF from.id # <<>> /\ to.id # <<>> THEN {[from |-> from.id, to |-> to.id]} ELSE {}

\* the edge written by a line of the form X -->|label| Y
LabelledEdgeOf(line) ==
  IF Contains(line, Arrow) /\ Len(SplitOn(line, Arrow)) = 2
  THEN LabelledEdgeOfParts(parse_node(SplitOn(line, Arrow)[1]),
                           parse_node(AfterTargetLabel(Strip(SplitOn(line, Arrow)[2]))))
  ELSE {}

\* C21: after a line X -->|label| Y is read, Y is a node of the model and the
\* model has the edge X -> Y
Cex_C21 ==
  \A k \in DOMAIN glines :
     \A r \in LabelledEdgeOf(Strip(LineSrc[glines[k]])) :
        /\ r.to \in NodeIds
        /\ \E e \in DOMAIN edges : edges[e].from = r.from /\ edges[e].to = r.to

\* the declarations ID[label] and ID{label} written on the two sides of the
\* arrow of a line: [id, label]
DeclsOfParts(parts) ==
  {parse_node(parts[k]) :
      k \in {j \in {1, 2} : j <= Len(parts) /\ OpenerOf(parts[j]) # ""}}

DeclsOfLine(line) ==
  IF Contains(line, Dashes) THEN DeclsOfParts(SplitOn(line, EdgeOp(line))) ELSE {}

\* the declarations of the k-th line read
DeclsRead(k) == DeclsOfLine(Strip(LineSrc[glines[k]]))

\* the positions of the lines read that declare id with a label
DeclaredAt(id) == {k \in DOMAIN glines : \E d \in DeclsRead(k) : d.id = id}

\* C22: a node that some line declared with a label keeps the label of its
\* last declaration, whatever lines refer to it by its bare id afterwards
Cex_C22 ==
  \A k \in DOMAIN nodes :
     DeclaredAt(nodes[k].id) # {} =>
        \E d \in DeclsRead(Max(DeclaredAt(nodes[k].id))) :
           d.id = nodes[k].id /\ d.label = nodes[k].label

====
